---- MODULE Spec2Model ----
(***************************************************************************)
(* Model of the Toast component (src/unnamed/part_001): one notification,  *)
(* its React state (isVisible, isLeaving, progress), its refs (timerRef,   *)
(* progressRef), and the timeouts and animation frames it schedules.       *)
(*                                                                         *)
(* Time is kept relative: every pending timeout carries the time that is   *)
(* left until it is due, every progress loop the time since its startTime. *)
(* A React event handler runs together with the render and the effects it  *)
(* causes; a state update made by a timeout callback is rendered in a      *)
(* later task (Render). A callback closes over the handleClose of the      *)
(* render that created it: a timeout carries the value of isLeaving that   *)
(* its handleClose captured.                                               *)
(***************************************************************************)
EXTENDS Integers, Sequences, FiniteSets, TLC

VARIABLES
    variant,       \* the variant prop, as passed in
    position,      \* the position prop, as passed in
    duration,      \* the duration prop, as passed in
    showProgress,  \* the showProgress prop
    mounted,       \* the component is mounted
    hovered,       \* the pointer is over the toast
    isVisible,     \* useState(false)
    isLeaving,     \* useState(false), as of the last render
    queued,        \* setIsLeaving(true) is queued, not yet rendered
    progress,      \* useState(100)
    timers,        \* pending setTimeout callbacks
    frames,        \* pending requestAnimationFrame callbacks
    closeCalls,    \* number of onClose(id) invocations
    expiries,      \* number of auto-hide timeouts that fired
    armed,         \* number of auto-hide timeouts started
    lateRuns,      \* a callback of the instance ran after unmount
    manual,        \* a close click or the Escape key occurred
    everPaused,    \* the pointer entered at least once
    age,           \* time since mount, until the first pause or manual close
    active,        \* time the pointer was away, until isLeaving is set
    leaveAge,      \* time since setIsLeaving(true), until onClose; -1 before
    closedAge,     \* age at the first onClose call, -1 before
    closedLeaveAge, \* leaveAge at the first onClose call, -1 before
    thrown,        \* an onClose call threw
    crashed,       \* an error left the component's callbacks uncaught
    \* OrderActions (src/unnamed/part_000)
    isPrintingShippingSlip, \* useState(false), as of the last render
    isPrintingInvoice,      \* useState(false), as of the last render
    pendingFlags,  \* state updates queued, not yet rendered, per flag
    ops,           \* invocations of the print handlers waiting on a service
    lastReturn,    \* what the invocation that returned last did
    \* ProductManagement (src/client/src/components/ProductManagement/index.js)
    selectedProducts, \* state.selectedProducts
    loading,       \* state.loading
    bulk,          \* the bulk operation: its kind, batches, batch, phase
    pendingReq,    \* ids whose delete / put request is in flight
    issuedIds,     \* ids in the order their requests were issued
    bulkAlerts,    \* variants of the alerts the bulk operation raised
    refreshes,     \* fetchProducts / fetchAllProductsStats calls it made
    searchValue,   \* state.searchValue, as of the last render
    searchTimeout, \* the pending timeout of handleSearchChange, if any
    fetches,       \* the product fetches issued, in order
    sinceChange,   \* time since the last search change, -1 before the first
    awaited,       \* the fetches whose response has not arrived, by index
    displayed,     \* the fetch whose response state.products shows, 0: none
    \* EnhancedPDFService
    pdfCall,       \* the generateAndOpen... call in progress
    pdfResult,     \* what the last call settled with
    \* Register
    registerMounted,      \* the Register page is shown
    registerLoading,      \* loading
    registrationSuccess,  \* registrationSuccess
    redirectCountdown,    \* redirectCountdown
    countdown,            \* let countdown of handleSubmit
    registerTimer,        \* the interval of handleSubmit
    registering,          \* await register(formData) is pending
    navigations,          \* the navigate("/login") calls, by caller
    sinceSuccess,         \* time since the interval was set
    lateTicks             \* interval callbacks run after the page was left

vars == <<variant, position, duration, showProgress, mounted, hovered, isVisible, isLeaving,
          queued, progress, timers, frames, closeCalls, expiries, armed, lateRuns,
          manual, everPaused, age, active, leaveAge, closedAge,
          closedLeaveAge, thrown, crashed>>

orderVars ==
    <<isPrintingShippingSlip, isPrintingInvoice, pendingFlags, ops, lastReturn>>

bulkVars ==
    <<selectedProducts, loading, bulk, pendingReq, issuedIds, bulkAlerts,
      refreshes>>

searchVars ==
    <<searchValue, searchTimeout, fetches, sinceChange, awaited, displayed>>

productVars == <<bulkVars, searchVars>>

pdfVars == <<pdfCall, pdfResult>>

registerVars ==
    <<registerMounted, registerLoading, registrationSuccess,
      redirectCountdown, countdown, registerTimer, registering, navigations,
      sinceSuccess, lateTicks>>

pageVars == <<pdfVars, registerVars>>

\* The state of the components other than the Toast
others == <<orderVars, productVars, pageVars>>

\* An invocation of a print handler: the handler, the service it waits on,
\* whether it set its flag, the services it called, the alerts it raised, the
\* template it chose, what getDefaultTemplate gave it ("none" before that),
\* and whether another operation under its guard was in flight when it was
\* made.
Invocation(handler, overlap) ==
    [h |-> handler, pc |-> "returned", setFlag |-> FALSE, services |-> {},
     alerts |-> <<>>, template |-> "none", got |-> "none",
     overlapped |-> overlap]

NoFlags == [g \in {"shippingSlip", "invoice"} |-> "none"]

OrderInit ==
    /\ isPrintingShippingSlip = FALSE
    /\ isPrintingInvoice = FALSE
    /\ pendingFlags = NoFlags
    /\ ops = <<>>
    /\ lastReturn = Invocation("none", FALSE)

\* failed is the id of the first request of the operation that was rejected
\* (0 when none was)
NoBulk ==
    [kind |-> "none", batches |-> <<>>, k |-> 0, phase |-> "idle", failed |-> 0]

\* ProductManagement before a bulk operation, with the given selection
BulkInit(selection) ==
    /\ selectedProducts = selection
    /\ loading = FALSE
    /\ bulk = NoBulk
    /\ pendingReq = {}
    /\ issuedIds = <<>>
    /\ bulkAlerts = <<>>
    /\ refreshes = 0

\* A product fetch: the search parameter it carries, the search value the
\* input shows when it is issued, what issued it, and the time since the
\* last search change.
Fetch(search, shown, via, at) ==
    [search |-> search, shown |-> shown, via |-> via, at |-> at]

NoTimeout == [pending |-> FALSE, rem |-> 0, search |-> ""]

\* After mount: the two effects on [fetchProducts] have each fetched.
SearchInit ==
    /\ searchValue = ""
    /\ searchTimeout = NoTimeout
    /\ fetches = <<Fetch("", "", "effect", 0), Fetch("", "", "effect", 0)>>
    /\ sinceChange = 0 - 1
    /\ awaited = {1, 2}
    /\ displayed = 0

ProductInit == BulkInit(<<>>) /\ SearchInit

\* No generateAndOpen... call: pc is the call awaited, done the steps that
\* completed, failure what went wrong (the step and the error thrown)
NoCall ==
    [fn |-> "none", pc |-> "idle", orderId |-> 0, templateId |-> "null",
     url |-> <<>>, accessible |-> "undefined", done |-> {},
     failure |-> <<>>]

NoResult ==
    [fn |-> "none", settled |-> "none", success |-> FALSE, url |-> <<>>,
     accessible |-> "undefined", error |-> "undefined", message |-> <<>>,
     done |-> {}, failure |-> <<>>]

PdfInit ==
    /\ pdfCall = NoCall
    /\ pdfResult = NoResult

\* const countdown = 5 / setInterval(..., 1000)
CountdownFrom == 5
IntervalDelay == 1000

NoInterval == [active |-> FALSE, rem |-> 0]

\* The Register page after mount
RegisterInit ==
    /\ registerMounted = TRUE
    /\ registerLoading = FALSE
    /\ registrationSuccess = FALSE
    /\ redirectCountdown = CountdownFrom
    /\ countdown = CountdownFrom
    /\ registerTimer = NoInterval
    /\ registering = FALSE
    /\ navigations = <<>>
    /\ sinceSuccess = 0
    /\ lateTicks = 0

PageInit == PdfInit /\ RegisterInit

----------------------------------------------------------------------------
\* Program constants

DefaultDuration == 5000

ExitDelay == 300

InitialProgress == 100

\* Bounds of the model

\* The history clocks stop this long after the duration has passed.
Slack == 600

\* The counters of calls stop here.
MaxCalls == 2

\* Invocations of the print handlers that wait on a service at one time
MaxOps == 2

\* The largest selection of a bulk operation
MaxSelected == 21

\* The product fetches followed
MaxFetches == 8

\* The clock of the search model advances by this much at most.
SearchStep == 100

\* setTimeout(() => fetchProducts(), 300)
DebounceDelay == 300

\* const batchSize = 10
BatchSize == 10

\* if (count > 20): progress alerts
ProgressAlertsAbove == 20

\* The clock is sampled this many times per duration.
Samples == 4

\* JavaScript values passed as props: the kind of the value, the number it
\* is or converts to (nan: the conversion gives NaN), the string it is.
JsNumber(n) == [k |-> "number", v |-> n, nan |-> FALSE, s |-> ""]
JsNaN == [k |-> "number", v |-> 0, nan |-> TRUE, s |-> ""]
JsString(str) ==
    [k |-> "string", v |-> IF str = "100" THEN 100 ELSE 0,
     nan |-> str \notin {"100", ""}, s |-> str]
JsNull == [k |-> "null", v |-> 0, nan |-> FALSE, s |-> ""]
JsUndefined == [k |-> "undefined", v |-> 0, nan |-> TRUE, s |-> ""]

\* duration props of the lifecycle model: numbers, and a missing prop
DurationInputs == {JsNumber(0), JsNumber(200), JsNumber(400), JsUndefined}

Min(a, b) == IF a <= b THEN a ELSE b
Max(a, b) == IF a >= b THEN a ELSE b

----------------------------------------------------------------------------
\* Pure functions of the component

\* typeof x
TypeOf(x) == IF x.k = "null" THEN "object" ELSE x.k

\* x >= 0, after the conversion of x to a number
GeZero(x) == ~x.nan /\ x.v >= 0

\* a destructured prop with a default value: prop = dflt
DefaultParam(x, dflt) == IF x.k = "undefined" THEN dflt ELSE x

\* Mutant: the type of the duration is not tested.
IsValidDurationAnyType(d) == GeZero(d)

\* typeof duration === "number" && duration >= 0
IsValidDuration(d) == TypeOf(d) = "number" /\ GeZero(d)

\* duration = 5000 (default parameter), then
\* typeof duration === "number" && duration >= 0 ? duration : 5000
SafeDuration(d) ==
    LET given == DefaultParam(d, JsNumber(DefaultDuration))
    IN IF IsValidDuration(given) THEN given.v ELSE DefaultDuration

safeDuration == SafeDuration(duration)

\* Math.max(0, 100 - (elapsed / safeDuration) * 100)
EffectProgress(elapsed, sd) ==
    Max(0, 100 - (elapsed * 100) \div sd)

\* Math.max(0, initialProgress - (elapsed / remainingTime) * initialProgress)
ResumeProgress(elapsed, initialProgress, remainingTime) ==
    Max(0, initialProgress - (elapsed * initialProgress) \div remainingTime)

\* (progress / 100) * safeDuration
RemainingTime(p, sd) == (p * sd) \div 100

\* const validVariants = ["success", "error", "warning", "info"]
validVariants == {"success", "error", "warning", "info"}

\* Mutant: the variant is used as given.
SafeVariantAsGiven(x) == DefaultParam(x, JsString("info")).s

\* variant = "info" (default parameter), then
\* validVariants.includes(variant) ? variant : "info"
SafeVariant(x) ==
    LET given == DefaultParam(x, JsString("info"))
    IN IF given.k = "string" /\ given.s \in validVariants
       THEN given.s ELSE "info"

safeVariant == SafeVariant(variant)

toastIcons ==
    [success |-> "CheckCircle", error |-> "AlertCircle",
     warning |-> "AlertTriangle", info |-> "Info"]

toastVariants ==
    [success |-> [container |-> "toast-success", icon |-> "text-green-600",
                  iconBg |-> "bg-green-100"],
     error |-> [container |-> "toast-error", icon |-> "text-red-600",
                iconBg |-> "bg-red-100"],
     warning |-> [container |-> "toast-warning", icon |-> "text-yellow-600",
                  iconBg |-> "bg-yellow-100"],
     info |-> [container |-> "toast-info", icon |-> "text-blue-600",
               iconBg |-> "bg-blue-100"]]

\* table[key] || table.info
OrInfo(table, key) ==
    IF key \in DOMAIN table THEN table[key] ELSE table.info

Icon(sv) == OrInfo(toastIcons, sv)

variantStyles(sv) == OrInfo(toastVariants, sv)

\* aria-live={safeVariant === "error" ? "assertive" : "polite"}
AriaLive(sv) == IF sv = "error" THEN "assertive" ELSE "polite"

\* the colour class of the progress bar; "" when no test matches
BarColour(sv) ==
    CASE sv = "success" -> "bg-green-500"
      [] sv = "error" -> "bg-red-500"
      [] sv = "warning" -> "bg-yellow-500"
      [] sv = "info" -> "bg-blue-500"
      [] OTHER -> ""

\* What the render shows of the variant
VariantRendering(x) ==
    LET sv == SafeVariant(x)
    IN [icon |-> Icon(sv), styles |-> variantStyles(sv),
        ariaLive |-> AriaLive(sv), bar |-> BarColour(sv)]

\* The position strings tried, each with the direction words it contains
PositionWords ==
    [s \in {"top-right", "top-left", "bottom-right", "bottom-left",
            "top-center", "bottom-center", "center", "", "left-right",
            "bottom-top"} |->
        CASE s = "top-right" -> {"top", "right"}
          [] s = "top-left" -> {"top", "left"}
          [] s = "bottom-right" -> {"bottom", "right"}
          [] s = "bottom-left" -> {"bottom", "left"}
          [] s = "top-center" -> {"top"}
          [] s = "bottom-center" -> {"bottom"}
          [] s = "left-right" -> {"left", "right"}
          [] s = "bottom-top" -> {"bottom", "top"}
          [] OTHER -> {}]

\* position.includes(word)
Includes(str, word) == word \in PositionWords[str]

\* Mutant: the visible phase is tested before the leaving phase.
GetAnimationClassVisibleFirst(leaving, visible, pos) ==
    LET isRightPosition == Includes(pos, "right")
        isLeftPosition == Includes(pos, "left")
        isTopPosition == Includes(pos, "top")
        isBottomPosition == Includes(pos, "bottom")
        side == CASE isRightPosition -> "right"
                  [] ~isRightPosition /\ isLeftPosition -> "left"
                  [] ~isRightPosition /\ ~isLeftPosition /\ isTopPosition
                        -> "top"
                  [] ~isRightPosition /\ ~isLeftPosition /\ ~isTopPosition
                        /\ isBottomPosition -> "bottom"
                  [] OTHER -> "right"
    IN IF visible THEN <<"animate-slide-in-from", side>>
       ELSE IF leaving THEN <<"animate-slide-out-to", side>>
       ELSE <<"opacity-0 translate-x-full", "">>

\* getAnimationClass, as the pair of the class prefix and its direction
GetAnimationClass(leaving, visible, pos) ==
    LET isRightPosition == Includes(pos, "right")
        isLeftPosition == Includes(pos, "left")
        isTopPosition == Includes(pos, "top")
        isBottomPosition == Includes(pos, "bottom")
        side == CASE isRightPosition -> "right"
                  [] ~isRightPosition /\ isLeftPosition -> "left"
                  [] ~isRightPosition /\ ~isLeftPosition /\ isTopPosition
                        -> "top"
                  [] ~isRightPosition /\ ~isLeftPosition /\ ~isTopPosition
                        /\ isBottomPosition -> "bottom"
                  [] OTHER -> "right"
    IN IF leaving THEN <<"animate-slide-out-to", side>>
       ELSE IF visible THEN <<"animate-slide-in-from", side>>
       ELSE <<"opacity-0 translate-x-full", "">>

\* position = "top-right" (default parameter)
safePosition == DefaultParam(position, JsString("top-right")).s

getAnimationClass == GetAnimationClass(isLeaving, isVisible, safePosition)

----------------------------------------------------------------------------
\* Timeouts and animation frames

\* A frame callback is requested by a handler (Fresh: it runs within the
\* current instant) or by a frame callback (Waiting: it runs at the next
\* sample of the clock, when it is Due). A due frame runs before anything else.
Fresh == "fresh"
Waiting == "waiting"
Due == "due"

ExpiryTimer(delay, capturedLeaving) ==
    [kind |-> "expiry", rem |-> delay, leaving |-> capturedLeaving, ref |-> TRUE]

\* Mutant: onClose is not delayed by the exit animation.
ExitTimerAtOnce ==
    [kind |-> "exit", rem |-> 0, leaving |-> FALSE, ref |-> FALSE]

\* setTimeout(() => onClose?.(id), 300)
ExitTimer ==
    [kind |-> "exit", rem |-> ExitDelay, leaving |-> FALSE, ref |-> FALSE]

EntranceFrame ==
    [kind |-> "entrance", wait |-> Fresh, elapsed |-> 0, init |-> 0, total |-> 0,
     ref |-> FALSE]

ProgressFrame(k, w, e, i, tot) ==
    [kind |-> k, wait |-> w, elapsed |-> e, init |-> i, total |-> tot,
     ref |-> TRUE]

Unref(s) == [i \in 1..Len(s) |-> [s[i] EXCEPT !.ref = FALSE]]

\* clearTimeout(timerRef.current) / cancelAnimationFrame(progressRef.current)
ClearRef(s) == SelectSeq(s, LAMBDA x : ~x.ref)

\* ref.current = schedule(x): the ref now names x and nothing else
SetRef(s, x) == Append(Unref(s), x)

NoDueFrame(fs) == \A i \in 1..Len(fs) : fs[i].wait # Due

Remove(s, i) == SubSeq(s, 1, i - 1) \o SubSeq(s, i + 1, Len(s))

----------------------------------------------------------------------------
\* The mount effect and handleClose, as functions of the pending callbacks

Bump(n) == Min(n + 1, MaxCalls)

ClockCap == safeDuration + Slack

Advance(clock, dt) == Min(clock + dt, ClockCap)

\* The clock advances by one sample of the duration, or up to the next due
\* timeout when that is sooner.
Quantum == IF safeDuration > 0 THEN safeDuration \div Samples ELSE 100

MinRem(ts) ==
    IF ts = <<>> THEN Quantum
    ELSE CHOOSE r \in {ts[i].rem : i \in 1..Len(ts)} :
            \A j \in 1..Len(ts) : r <= ts[j].rem

Step == Min(Quantum, MinRem(timers))

\* useEffect body, timeouts: timerRef.current = setTimeout(handleClose, safeDuration)
EffectTimers(ts, leavingNow) ==
    IF safeDuration > 0
    THEN SetRef(ts, ExpiryTimer(safeDuration, leavingNow))
    ELSE ts

\* useEffect body, frames: the entrance frame, and the progress loop
EffectFrames(fs) ==
    LET entered == Append(fs, EntranceFrame)
    IN IF safeDuration > 0 /\ showProgress
       THEN SetRef(entered,
                   ProgressFrame("effectProgress", Fresh, 0, InitialProgress,
                                 safeDuration))
       ELSE entered

\* the function returned by the effect
CleanupTimers(ts) == ClearRef(ts)

CleanupFrames(fs) == ClearRef(fs)

\* if (isLeaving) return, isLeaving being the value the closure captured
Returns(captured) == captured

\* The render that commits isLeaving = true changes handleClose, hence the
\* effect's dependency list: the effect is cleaned up and run again.
CommitTimers(ts) == EffectTimers(CleanupTimers(ts), TRUE)

CommitFrames(fs) == EffectFrames(CleanupFrames(fs))

\* handleClose called by a React event handler (click, keydown): React renders
\* the update and runs the effects before the event ends.
CloseNow(captured) ==
    IF Returns(captured)
    THEN UNCHANGED <<isLeaving, queued, timers, frames, leaveAge, armed>>
    ELSE /\ isLeaving' = (isLeaving \/ mounted)
         /\ queued' = FALSE
         /\ timers' = IF mounted /\ ~isLeaving
                      THEN CommitTimers(Append(timers, ExitTimer))
                      ELSE Append(timers, ExitTimer)
         /\ frames' = IF mounted /\ ~isLeaving
                      THEN CommitFrames(frames) ELSE frames
         /\ leaveAge' = IF leaveAge < 0 THEN 0 ELSE leaveAge
         /\ armed' = IF mounted /\ ~isLeaving /\ safeDuration > 0
                     THEN Bump(armed) ELSE armed

\* handleClose called by a timeout callback: setIsLeaving(true) is queued and
\* rendered in a later task; the timeout of handleClose is set at once.
CloseLater(ts, captured) ==
    IF Returns(captured)
    THEN /\ timers' = ts
         /\ UNCHANGED <<queued, leaveAge>>
    ELSE /\ timers' = Append(ts, ExitTimer)
         /\ queued' = (queued \/ (mounted /\ ~isLeaving))
         /\ leaveAge' = IF leaveAge < 0 THEN 0 ELSE leaveAge

----------------------------------------------------------------------------
\* The state after the first render and its effect
Mount ==
    /\ showProgress \in BOOLEAN
    /\ mounted = TRUE
    /\ hovered = FALSE
    /\ isVisible = FALSE
    /\ isLeaving = FALSE
    /\ queued = FALSE
    /\ progress = InitialProgress
    /\ timers = EffectTimers(<<>>, FALSE)
    /\ frames = EffectFrames(<<>>)
    /\ closeCalls = 0
    /\ expiries = 0
    /\ lateRuns = FALSE
    /\ armed = IF safeDuration > 0 THEN 1 ELSE 0
    /\ manual = FALSE
    /\ everPaused = FALSE
    /\ age = 0
    /\ active = 0
    /\ leaveAge = 0 - 1
    /\ closedAge = 0 - 1
    /\ closedLeaveAge = 0 - 1
    /\ thrown = FALSE
    /\ crashed = FALSE

\* The variant and position props do not bear on the lifecycle: they are left
\* out here and vary in RenderSpec.
Init ==
    /\ variant = JsUndefined
    /\ position = JsUndefined
    /\ duration \in DurationInputs
    /\ Mount
    /\ OrderInit
    /\ PageInit
    /\ ProductInit

\* The auto-hide timeout (of the effect or of handleMouseLeave) is due.
Expire(i) ==
    /\ i \in 1..Len(timers)
    /\ timers[i].kind = "expiry"
    /\ timers[i].rem = 0
    /\ NoDueFrame(frames)
    /\ CloseLater(Remove(timers, i), timers[i].leaving)
    /\ expiries' = Bump(expiries)
    /\ lateRuns' = (lateRuns \/ ~mounted)
    /\ UNCHANGED <<others, variant, position, thrown, crashed, duration, showProgress, mounted, hovered, isVisible,
                   isLeaving, progress, frames, closeCalls, armed, manual,
                   everPaused, age, active, closedAge, closedLeaveAge>>

\* React renders the update a timeout callback queued, and runs the effects.
Render ==
    /\ queued
    /\ NoDueFrame(frames)
    /\ queued' = FALSE
    /\ isLeaving' = TRUE
    /\ timers' = IF isLeaving THEN timers ELSE CommitTimers(timers)
    /\ frames' = IF isLeaving THEN frames ELSE CommitFrames(frames)
    /\ armed' = IF ~isLeaving /\ safeDuration > 0 THEN Bump(armed) ELSE armed
    /\ UNCHANGED <<others, variant, position, thrown, crashed, duration, showProgress, mounted, hovered, isVisible,
                   progress, closeCalls, expiries, lateRuns, manual,
                   everPaused, age, active, leaveAge, closedAge,
                   closedLeaveAge>>

\* What the onClose prop does when called: it returns, it throws before the
\* container has dropped the toast, or it throws after.
OnCloseOutcomes == {"returns", "throws", "removesThenThrows"}

Throws(outcome) == outcome \in {"throws", "removesThenThrows"}

\* The container's onClose drops the toast from the visible collection, which
\* unmounts it (the stack manager's removal call).
OnCloseRemoves(outcome) == outcome \in {"returns", "removesThenThrows"}

\* try { onClose?.(id) } catch (error) { ... logger.error ... }
Caught == TRUE

\* The timeout of handleClose is due: onClose?.(id)
Dismiss(i, outcome) ==
    /\ i \in 1..Len(timers)
    /\ timers[i].kind = "exit"
    /\ timers[i].rem = 0
    /\ NoDueFrame(frames)
    /\ closeCalls' = Bump(closeCalls)
    /\ closedAge' = IF closeCalls = 0 THEN age ELSE closedAge
    /\ closedLeaveAge' = IF closeCalls = 0 THEN leaveAge ELSE closedLeaveAge
    /\ lateRuns' = (lateRuns \/ ~mounted)
    /\ thrown' = (thrown \/ Throws(outcome))
    /\ crashed' = (crashed \/ (Throws(outcome) /\ ~Caught))
    /\ mounted' = (mounted /\ ~OnCloseRemoves(outcome))
    /\ hovered' = (hovered /\ ~OnCloseRemoves(outcome))
    /\ queued' = (queued /\ ~OnCloseRemoves(outcome))
    /\ timers' = IF mounted /\ OnCloseRemoves(outcome)
                 THEN CleanupTimers(Remove(timers, i))
                 ELSE Remove(timers, i)
    /\ frames' = IF mounted /\ OnCloseRemoves(outcome)
                 THEN CleanupFrames(frames) ELSE frames
    /\ UNCHANGED <<others, variant, position, duration, showProgress, isVisible,
                   isLeaving, progress, expiries, armed, manual, everPaused,
                   age, active, leaveAge>>

\* Mutant: the entrance frame hides a toast that is leaving.
SetIsVisibleUnlessLeaving == ~isLeaving

\* setIsVisible(true)
SetIsVisible == TRUE

\* requestAnimationFrame(() => setIsVisible(true))
Entrance(i) ==
    /\ i \in 1..Len(frames)
    /\ frames[i].kind = "entrance"
    /\ frames[i].wait \in {Fresh, Due}
    /\ frames' = Remove(frames, i)
    /\ isVisible' = IF mounted THEN SetIsVisible ELSE isVisible
    /\ lateRuns' = (lateRuns \/ ~mounted)
    /\ UNCHANGED <<others, variant, position, thrown, crashed, duration, showProgress, mounted, hovered, isLeaving,
                   queued, progress, timers, closeCalls, expiries, armed,
                   manual, everPaused, age, active, leaveAge, closedAge,
                   closedLeaveAge>>

\* updateProgress, of the effect or of handleMouseLeave
NewProgress(f) ==
    IF f.kind = "effectProgress"
    THEN EffectProgress(f.elapsed, f.total)
    ELSE ResumeProgress(f.elapsed, f.init, f.total)

UpdateProgress(i) ==
    /\ i \in 1..Len(frames)
    /\ frames[i].kind \in {"effectProgress", "resumeProgress"}
    /\ frames[i].wait \in {Fresh, Due}
    /\ LET f == frames[i]
           newProgress == NewProgress(f)
           rest == Remove(frames, i)
       IN /\ progress' = IF mounted THEN newProgress ELSE progress
          /\ frames' = IF newProgress > 0 /\ f.elapsed < f.total
                       THEN SetRef(rest, ProgressFrame(f.kind, Waiting,
                                                       f.elapsed, f.init,
                                                       f.total))
                       ELSE rest
    /\ lateRuns' = (lateRuns \/ ~mounted)
    /\ UNCHANGED <<others, variant, position, thrown, crashed, duration, showProgress, mounted, hovered, isVisible,
                   isLeaving, queued, timers, closeCalls, expiries, armed,
                   manual, everPaused, age, active, leaveAge, closedAge,
                   closedLeaveAge>>

\* Pause on hover
handleMouseEnter ==
    /\ mounted /\ ~hovered
    /\ NoDueFrame(frames)
    /\ hovered' = TRUE
    /\ everPaused' = TRUE
    /\ timers' = ClearRef(timers)
    /\ frames' = ClearRef(frames)
    /\ UNCHANGED <<others, variant, position, thrown, crashed, duration, showProgress, mounted, isVisible, isLeaving,
                   queued, progress, closeCalls, expiries, armed, lateRuns,
                   manual, age, active, leaveAge, closedAge, closedLeaveAge>>

\* Mutant: resume does not test the duration.
ResumesAnyDuration == progress > 0

\* Mutant: resume does not test progress.
ResumesAnyProgress == safeDuration > 0

\* if (safeDuration > 0 && progress > 0)
Resumes == safeDuration > 0 /\ progress > 0

ResumeTimers(ts) ==
    IF Resumes
    THEN SetRef(ts, ExpiryTimer(RemainingTime(progress, safeDuration),
                                isLeaving))
    ELSE ts

ResumeFrames(fs) ==
    IF Resumes /\ showProgress
    THEN SetRef(fs, ProgressFrame("resumeProgress", Fresh, 0, progress,
                                  RemainingTime(progress, safeDuration)))
    ELSE fs

handleMouseLeave ==
    /\ mounted /\ hovered
    /\ NoDueFrame(frames)
    /\ hovered' = FALSE
    /\ timers' = ResumeTimers(timers)
    /\ frames' = ResumeFrames(frames)
    /\ UNCHANGED <<others, variant, position, thrown, crashed, duration, showProgress, mounted, isVisible, isLeaving,
                   queued, progress, closeCalls, expiries, armed, lateRuns,
                   manual, everPaused, age, active, leaveAge, closedAge,
                   closedLeaveAge>>

\* onClick={handleClose} on the close button
Click ==
    /\ mounted
    /\ NoDueFrame(frames)
    /\ CloseNow(isLeaving)
    /\ manual' = TRUE
    /\ UNCHANGED <<others, variant, position, thrown, crashed, duration, showProgress, mounted, hovered, isVisible,
                   progress, closeCalls, expiries, lateRuns, everPaused, age,
                   active, closedAge, closedLeaveAge>>

Keys == {"Escape", "Enter"}

handleKeyDown(key) ==
    /\ mounted
    /\ NoDueFrame(frames)
    /\ IF key = "Escape"
       THEN CloseNow(isLeaving) /\ manual' = TRUE
       ELSE UNCHANGED <<isLeaving, queued, timers, frames, leaveAge, armed,
                        manual>>
    /\ UNCHANGED <<others, variant, position, thrown, crashed, duration, showProgress, mounted, hovered, isVisible,
                   progress, closeCalls, expiries, lateRuns, everPaused, age,
                   active, closedAge, closedLeaveAge>>

\* The container removes the toast: the effect's cleanup runs.
Unmount ==
    /\ mounted
    /\ NoDueFrame(frames)
    /\ mounted' = FALSE
    /\ hovered' = FALSE
    /\ queued' = FALSE
    /\ timers' = CleanupTimers(timers)
    /\ frames' = CleanupFrames(frames)
    /\ UNCHANGED <<others, variant, position, thrown, crashed, duration, showProgress, isVisible, isLeaving, progress,
                   closeCalls, expiries, armed, lateRuns, manual, everPaused,
                   age, active, leaveAge, closedAge, closedLeaveAge>>

\* Time passes. Due timeouts, requested frames and queued renders run before
\* it does.
Tick(dt) ==
    /\ mounted \/ timers # <<>> \/ frames # <<>>
    /\ ~queued
    /\ \A i \in 1..Len(frames) : frames[i].wait = Waiting
    /\ \A i \in 1..Len(timers) : timers[i].rem > 0
    /\ timers' = [i \in 1..Len(timers) |->
                    [timers[i] EXCEPT !.rem = @ - dt]]
    /\ frames' = [i \in 1..Len(frames) |->
                    [frames[i] EXCEPT !.wait = Due, !.elapsed = @ + dt]]
    /\ age' = IF everPaused \/ manual THEN age ELSE Advance(age, dt)
    /\ active' = IF mounted /\ ~hovered /\ ~isLeaving
                 THEN Advance(active, dt) ELSE active
    /\ leaveAge' = IF leaveAge >= 0 /\ closeCalls = 0
                   THEN Advance(leaveAge, dt) ELSE leaveAge
    /\ UNCHANGED <<others, variant, position, thrown, crashed, duration, showProgress, mounted, hovered, isVisible,
                   isLeaving, queued, progress, closeCalls, expiries, armed,
                   lateRuns, manual, everPaused, closedAge, closedLeaveAge>>

Next ==
    \/ \E i \in 1..Len(timers) : Expire(i)
    \/ Render
    \/ \E i \in 1..Len(timers), outcome \in OnCloseOutcomes :
          Dismiss(i, outcome)
    \/ \E i \in 1..Len(frames) : Entrance(i)
    \/ \E i \in 1..Len(frames) : UpdateProgress(i)
    \/ handleMouseEnter
    \/ handleMouseLeave
    \/ Click
    \/ \E key \in Keys : handleKeyDown(key)
    \/ Unmount
    \/ Tick(Step)

Spec == Init /\ [][Next]_vars

----------------------------------------------------------------------------
\* The render of the props. The props are drawn from wider sets, and the
\* phase changes by the two state updates alone.

VariantInputs ==
    {JsString("success"), JsString("error"), JsString("warning"),
     JsString("info"), JsString("bogus"), JsString("Error"), JsString(""),
     JsNumber(1), JsNull, JsUndefined}

PositionInputs ==
    {JsString(str) : str \in DOMAIN PositionWords} \cup {JsUndefined}

RenderDurationInputs ==
    {JsNumber(0), JsNumber(200), JsNumber(0 - 1), JsNumber(0 - 200), JsNaN,
     JsString("abc"), JsString("100"), JsString(""), JsNull, JsUndefined}

RenderInit ==
    /\ variant \in VariantInputs
    /\ position \in PositionInputs
    /\ duration \in RenderDurationInputs
    /\ Mount
    /\ OrderInit
    /\ PageInit
    /\ ProductInit

\* setIsVisible(true), rendered
RenderVisible ==
    /\ ~isVisible
    /\ isVisible' = TRUE
    /\ UNCHANGED <<others, variant, position, duration, showProgress, mounted,
                   hovered, isLeaving, queued, progress, timers, frames,
                   closeCalls, expiries, armed, lateRuns, manual, everPaused,
                   age, active, leaveAge, closedAge, closedLeaveAge, thrown,
                   crashed>>

\* setIsLeaving(true), rendered
RenderLeaving ==
    /\ ~isLeaving
    /\ isLeaving' = TRUE
    /\ UNCHANGED <<others, variant, position, duration, showProgress, mounted,
                   hovered, isVisible, queued, progress, timers, frames,
                   closeCalls, expiries, armed, lateRuns, manual, everPaused,
                   age, active, leaveAge, closedAge, closedLeaveAge, thrown,
                   crashed>>

RenderNext == RenderVisible \/ RenderLeaving

RenderSpec == RenderInit /\ [][RenderNext]_vars

----------------------------------------------------------------------------
\* OrderActions (src/unnamed/part_000): the print handlers. A handler reads
\* the printing flag of the render that created it. A state update made
\* during a click on a DOM button is rendered before the event ends; one made
\* in the continuation of an await, or in a call that DropdownMenu makes
\* outside an event, is rendered in a later task (OrderRender).

Guards == {"shippingSlip", "invoice"}

GuardOf(handler) ==
    IF handler = "handlePrintShippingSlip" THEN "shippingSlip" ELSE "invoice"

Flag(g) ==
    IF g = "shippingSlip" THEN isPrintingShippingSlip ELSE isPrintingInvoice

InFlight(g) == Cardinality({i \in 1..Len(ops) : GuardOf(ops[i].h) = g})

\* order.id, present or missing
OrderIds == {0, 1}

\* the documentType argument: the three of the menu items, and another
DocumentTypes == {"auto", "einvoice", "earsiv", "other"}

\* the service a handler calls first
FirstService(handler, documentType) ==
    CASE handler = "handlePrintShippingSlip" -> "getDefaultTemplate"
      [] handler = "handlePrintInvoice" -> "generateAndOpenInvoice"
      [] handler = "handleQNBFinansInvoice" /\ documentType = "auto"
            -> "autoGenerateDocument"
      [] handler = "handleQNBFinansInvoice" /\ documentType = "einvoice"
            -> "generateEInvoice"
      [] handler = "handleQNBFinansInvoice" /\ documentType = "earsiv"
            -> "generateEArchive"
      [] OTHER -> "none"

\* Mutant: the flag is set, never reset.
SetFlagOnly(pf, g, value) == [pf EXCEPT ![g] = "true"]

\* setIsPrinting...(value)
SetFlag(pf, g, value) ==
    [pf EXCEPT ![g] = IF value THEN "true" ELSE "false"]

FlagAfter(pf, g) == IF pf[g] = "none" THEN Flag(g) ELSE pf[g] = "true"

\* The queued updates pf are rendered now (sync) or left queued.
Commit(pf, sync) ==
    IF sync
    THEN /\ isPrintingShippingSlip' = FlagAfter(pf, "shippingSlip")
         /\ isPrintingInvoice' = FlagAfter(pf, "invoice")
         /\ pendingFlags' = NoFlags
    ELSE /\ pendingFlags' = pf
         /\ UNCHANGED <<isPrintingShippingSlip, isPrintingInvoice>>

\* if (isPrintingShippingSlip) return / if (isPrintingInvoice) return
AlreadyPrinting(g) == Flag(g)

\* A print handler is called, up to its first await.
Invoke(handler, orderId, documentType, sync) ==
    LET g == GuardOf(handler)
        inv == Invocation(handler, InFlight(g) > 0)
        first == FirstService(handler, documentType)
    IN IF AlreadyPrinting(g)
       THEN /\ lastReturn' = inv
            /\ UNCHANGED <<ops, isPrintingShippingSlip, isPrintingInvoice,
                           pendingFlags>>
       ELSE IF orderId = 0
       THEN /\ lastReturn' = [inv EXCEPT !.alerts = <<"error">>]
            /\ UNCHANGED <<ops, isPrintingShippingSlip, isPrintingInvoice,
                           pendingFlags>>
       ELSE IF first = "none"
       THEN \* throw new Error("Gecersiz belge tipi"): catch, finally
            /\ lastReturn' = [inv EXCEPT !.setFlag = TRUE,
                                         !.alerts = <<"error">>]
            /\ Commit(SetFlag(SetFlag(pendingFlags, g, TRUE), g, FALSE), sync)
            /\ UNCHANGED ops
       ELSE /\ ops' = Append(ops, [inv EXCEPT !.pc = first,
                                              !.setFlag = TRUE,
                                              !.services = {first}])
            /\ Commit(SetFlag(pendingFlags, g, TRUE), sync)
            /\ UNCHANGED lastReturn

\* onClick of the print button, which is disabled while the flag is rendered
ClickPrintShippingSlip(orderId) ==
    /\ ~isPrintingShippingSlip
    /\ Len(ops) < MaxOps
    /\ Invoke("handlePrintShippingSlip", orderId, "auto", TRUE)
    /\ UNCHANGED <<vars, productVars, pageVars>>

\* onClick of an item of the invoice DropdownMenu
ClickInvoiceItem(handler, orderId, documentType, sync) ==
    /\ Len(ops) < MaxOps
    /\ handler = "handlePrintInvoice" => documentType = "auto"
    /\ Invoke(handler, orderId, documentType, sync)
    /\ UNCHANGED <<vars, productVars, pageVars>>

\* React renders the queued updates of the flags.
OrderRender ==
    /\ pendingFlags # NoFlags
    /\ Commit(pendingFlags, TRUE)
    /\ UNCHANGED <<ops, lastReturn>>
    /\ UNCHANGED <<vars, productVars, pageVars>>

\* The handler returns after an await: finally { setIsPrinting...(false) }
Finish(i, op) ==
    /\ ops' = Remove(ops, i)
    /\ lastReturn' = [op EXCEPT !.pc = "returned"]
    /\ pendingFlags' = SetFlag(pendingFlags, GuardOf(op.h), FALSE)
    /\ UNCHANGED <<isPrintingShippingSlip, isPrintingInvoice>>

\* What api.shipping.getDefaultTemplate() does: it throws, it reports a
\* failure, it yields no template, a default template id, or no default id
\* but available templates.
TemplateOutcomes == {"throws", "failure", "empty", "default", "available"}

\* Mutant: the available templates are not looked at.
DefaultTemplateIdOnly(outcome) ==
    IF outcome = "default" THEN "default" ELSE "none"

\* defaultTemplateId after the inner try / catch
DefaultTemplateId(outcome) ==
    CASE outcome = "default" -> "default"
      [] outcome = "available" -> "first"
      [] OTHER -> "none"

\* handlePrintShippingSlip after await api.shipping.getDefaultTemplate()
TemplateReturns(i, outcome) ==
    /\ i \in 1..Len(ops)
    /\ ops[i].pc = "getDefaultTemplate"
    /\ LET defaultTemplateId == DefaultTemplateId(outcome)
       IN IF defaultTemplateId = "none"
          THEN Finish(i, [ops[i] EXCEPT !.alerts = Append(@, "warning"),
                                        !.got = outcome])
          ELSE /\ ops' = [ops EXCEPT ![i] =
                             [@ EXCEPT !.pc = "generateAndOpenShippingSlip",
                                       !.got = outcome,
                                       !.template = defaultTemplateId,
                                       !.services =
                                           @ \cup {"generateAndOpenShippingSlip"}]]
               /\ UNCHANGED <<isPrintingShippingSlip, isPrintingInvoice,
                              pendingFlags, lastReturn>>
    /\ UNCHANGED <<vars, productVars, pageVars>>

\* What a generateAndOpen... call of enhancedPDFService gives
PdfOutcomes == {"accessible", "inaccessible", "failure", "throws"}

PdfAlerts(outcome) ==
    CASE outcome = "accessible" -> <<"success">>
      [] outcome = "inaccessible" -> <<"success", "warning">>
      [] OTHER -> <<"error">>

\* after await enhancedPDFService.generateAndOpenShippingSlip / ...Invoice
PdfReturns(i, outcome) ==
    /\ i \in 1..Len(ops)
    /\ ops[i].pc \in {"generateAndOpenShippingSlip", "generateAndOpenInvoice"}
    /\ Finish(i, [ops[i] EXCEPT !.alerts = @ \o PdfAlerts(outcome)])
    /\ UNCHANGED <<vars, productVars, pageVars>>

\* What a qnbFinansService call gives
QnbOutcomes == {"success", "failure", "throws"}

\* handleQNBFinansInvoice after await qnbFinansService...
QnbReturns(i, outcome) ==
    /\ i \in 1..Len(ops)
    /\ ops[i].pc \in {"autoGenerateDocument", "generateEInvoice",
                      "generateEArchive"}
    /\ Finish(i, [ops[i] EXCEPT !.alerts =
                     Append(@, IF outcome = "success" THEN "success"
                               ELSE "error")])
    /\ UNCHANGED <<vars, productVars, pageVars>>

OrderNext ==
    \/ \E orderId \in OrderIds : ClickPrintShippingSlip(orderId)
    \/ \E handler \in {"handlePrintInvoice", "handleQNBFinansInvoice"},
          orderId \in OrderIds, documentType \in DocumentTypes,
          sync \in BOOLEAN :
          ClickInvoiceItem(handler, orderId, documentType, sync)
    \/ OrderRender
    \/ \E i \in 1..Len(ops), outcome \in TemplateOutcomes :
          TemplateReturns(i, outcome)
    \/ \E i \in 1..Len(ops), outcome \in PdfOutcomes : PdfReturns(i, outcome)
    \/ \E i \in 1..Len(ops), outcome \in QnbOutcomes : QnbReturns(i, outcome)

\* The toast of the lifecycle model is left as mounted, with no duration.
ToastIdle ==
    /\ variant = JsUndefined
    /\ position = JsUndefined
    /\ duration = JsNumber(0)
    /\ showProgress = FALSE
    /\ Mount

OrderSpecInit ==
    /\ ToastIdle
    /\ OrderInit
    /\ PageInit
    /\ ProductInit

OrderSpec == OrderSpecInit /\ [][OrderNext]_<<vars, others>>

----------------------------------------------------------------------------
\* ProductManagement: handleBulkDelete and handleBulkStatusChange. One bulk
\* operation is followed, from its call to the completion of its requests.

\* for (let i = 0; i < ids.length; i += batchSize)
\*     batches.push(ids.slice(i, i + batchSize))
RECURSIVE Batches(_)
Batches(ids) ==
    IF ids = <<>> THEN <<>>
    ELSE <<SubSeq(ids, 1, Min(BatchSize, Len(ids)))>>
         \o Batches(SubSeq(ids, BatchSize + 1, Len(ids)))

Range(seq) == {seq[i] : i \in 1..Len(seq)}

RECURSIVE Flatten(_)
Flatten(seqs) ==
    IF seqs = <<>> THEN <<>> ELSE Head(seqs) \o Flatten(Tail(seqs))

Selections == {[i \in 1..n |-> i] : n \in 0..MaxSelected}

BulkKinds == {"delete", "status"}

\* Mutant: the next batch does not wait for the whole batch.
BatchSettledAtFirst(pending, batch) == TRUE

\* await Promise.all(batch.map(...)) resolves: no request of the batch is
\* in flight
BatchSettled(pending, batch) == pending \cap Range(batch) = {}

\* handleBulkDelete / handleBulkStatusChange up to the first await
BulkStart(kind, confirmed) ==
    /\ bulk.phase = "idle"
    /\ IF Len(selectedProducts) = 0 \/ (kind = "delete" /\ ~confirmed)
       THEN UNCHANGED bulkVars
       ELSE LET batches == Batches(selectedProducts)
            IN /\ loading' = TRUE
               /\ bulk' = [kind |-> kind, batches |-> batches, k |-> 1,
                           phase |-> "running", failed |-> 0]
               /\ pendingReq' = Range(batches[1])
               /\ issuedIds' = batches[1]
               /\ UNCHANGED <<selectedProducts, bulkAlerts, refreshes>>
    /\ UNCHANGED <<vars, orderVars, searchVars, pageVars>>

\* after await Promise.all(...) of batch k, up to the next await or the end
AfterBatch(pending, b) ==
    LET count == Len(Flatten(bulk.batches))
        processed == Len(Flatten(SubSeq(bulk.batches, 1, bulk.k)))
        progressAlert == IF count > ProgressAlertsAbove
                         THEN <<"info">> ELSE <<>>
    IN IF bulk.k < Len(bulk.batches)
       THEN /\ bulk' = [b EXCEPT !.k = @ + 1]
            /\ pendingReq' = pending \cup Range(bulk.batches[bulk.k + 1])
            /\ issuedIds' = issuedIds \o bulk.batches[bulk.k + 1]
            /\ bulkAlerts' = bulkAlerts \o progressAlert
            /\ UNCHANGED <<selectedProducts, loading, refreshes>>
       ELSE /\ bulk' = [b EXCEPT !.phase = "succeeded"]
            /\ pendingReq' = pending
            /\ bulkAlerts' = bulkAlerts \o progressAlert \o <<"success">>
            /\ selectedProducts' = <<>>
            /\ refreshes' = refreshes + 2
            /\ loading' = FALSE
            /\ UNCHANGED issuedIds

\* await Promise.all(batch.map(...)) throws as soon as one request fails
RejectsNever(ok) == FALSE

Rejects(ok) == ~ok

\* A delete / put request of the bulk operation completes.
RequestDone(id, ok) ==
    /\ id \in pendingReq
    /\ LET pending == pendingReq \ {id}
           batch == bulk.batches[bulk.k]
           b == IF ~ok /\ bulk.failed = 0
                THEN [bulk EXCEPT !.failed = id] ELSE bulk
       IN IF bulk.phase # "running"
          THEN /\ pendingReq' = pending
               /\ UNCHANGED <<selectedProducts, loading, bulk, issuedIds,
                              bulkAlerts, refreshes>>
          ELSE IF Rejects(ok)
          THEN \* Promise.all rejects: catch, finally
               /\ pendingReq' = pending
               /\ bulk' = [b EXCEPT !.phase = "failed"]
               /\ bulkAlerts' = Append(bulkAlerts, "error")
               /\ loading' = FALSE
               /\ UNCHANGED <<selectedProducts, issuedIds, refreshes>>
          ELSE IF BatchSettled(pending, batch)
          THEN AfterBatch(pending, b)
          ELSE /\ pendingReq' = pending
               /\ bulk' = b
               /\ UNCHANGED <<selectedProducts, loading, issuedIds,
                              bulkAlerts, refreshes>>
    /\ UNCHANGED <<vars, orderVars, searchVars, pageVars>>

BulkNext ==
    \/ \E kind \in BulkKinds, confirmed \in BOOLEAN : BulkStart(kind, confirmed)
    \/ \E id \in pendingReq, ok \in BOOLEAN : RequestDone(id, ok)

BulkSpecInit ==
    /\ ToastIdle
    /\ OrderInit
    /\ PageInit
    /\ \E selection \in Selections : BulkInit(selection)
    /\ SearchInit

BulkSpec == BulkSpecInit /\ [][BulkNext]_<<vars, others>>

----------------------------------------------------------------------------
\* ProductManagement: handleSearchChange, fetchProducts and the effects on
\* [fetchProducts]. fetchProducts is made anew when state.searchValue
\* changes; a callback holds the fetchProducts of the render that made it.

SearchValues == {"", "a", "ab"}

\* useEffect(() => { fetchProducts() }, [fetchProducts]), at lines 542 and
\* 999: both run when the render has a new fetchProducts.
EffectFetches(value, shown) ==
    IF value # shown
    THEN <<Fetch(value, value, "effect", 0), Fetch(value, value, "effect", 0)>>
    ELSE <<>>

\* handleSearchChange(value), with the render and the effects it causes
handleSearchChange(value) ==
    /\ value # searchValue
    /\ Len(fetches) + 3 <= MaxFetches
    /\ searchValue' = value
    /\ searchTimeout' = [pending |-> TRUE, rem |-> DebounceDelay,
                         search |-> searchValue]
    /\ fetches' = fetches \o EffectFetches(value, searchValue)
    /\ awaited' = awaited \cup (Len(fetches) + 1 .. Len(fetches'))
    /\ sinceChange' = 0
    /\ UNCHANGED displayed
    /\ UNCHANGED <<vars, orderVars, bulkVars, pageVars>>

\* the timeout of handleSearchChange is due: fetchProducts()
DebouncedFetch ==
    /\ searchTimeout.pending
    /\ searchTimeout.rem = 0
    /\ fetches' = Append(fetches, Fetch(searchTimeout.search, searchValue,
                                        "timeout", sinceChange))
    /\ awaited' = awaited \cup {Len(fetches) + 1}
    /\ searchTimeout' = NoTimeout
    /\ UNCHANGED <<searchValue, sinceChange, displayed>>
    /\ UNCHANGED <<vars, orderVars, bulkVars, pageVars>>

\* Time passes, up to the moment the timeout is due.
SearchTick ==
    /\ searchTimeout.pending
    /\ searchTimeout.rem > 0
    /\ LET dt == Min(SearchStep, searchTimeout.rem)
       IN /\ searchTimeout' = [searchTimeout EXCEPT !.rem = @ - dt]
          /\ sinceChange' = sinceChange + dt
    /\ UNCHANGED <<searchValue, fetches, awaited, displayed>>
    /\ UNCHANGED <<vars, orderVars, bulkVars, pageVars>>

\* updateState({ products: ..., totalItems: ..., totalPages: ... }), or
\* updateState({ products: [] }) in the catch block: the response to fetch i
\* is what state shows
ShownAfter(i) == i

\* await api.get(...) of fetch i returns, or throws
FetchResponse(i) ==
    /\ i \in awaited
    /\ awaited' = awaited \ {i}
    /\ displayed' = ShownAfter(i)
    /\ UNCHANGED <<searchValue, searchTimeout, fetches, sinceChange>>
    /\ UNCHANGED <<vars, orderVars, bulkVars, pageVars>>

SearchNext ==
    \/ \E value \in SearchValues : handleSearchChange(value)
    \/ DebouncedFetch
    \/ SearchTick
    \/ \E i \in awaited : FetchResponse(i)

SearchSpecInit ==
    /\ ToastIdle
    /\ OrderInit
    /\ PageInit
    /\ ProductInit

SearchSpec == SearchSpecInit /\ [][SearchNext]_<<vars, others>>

-----------------------------------------------------------------------------
\* EnhancedPDFService: generateAndOpenShippingSlip and generateAndOpenInvoice

PdfFunctions == {"generateAndOpenShippingSlip", "generateAndOpenInvoice"}

\* templateId = null by default
TemplateIds == {"null", "default", "first"}

\* The messages of the errors that the api call, testPDFAccessibility and
\* openPDFWithFallbacks throw
ErrorMessages == {"Network Error", "Popup blocked"}

\* The responses of api.shipping.generatePDF / api.orders.printInvoice:
\* success, message, data?.labelUrl (data?.pdfUrl) and labelUrl (pdfUrl),
\* "" for a missing string
ApiResponses ==
    [success : BOOLEAN, message : {"", "Order not found"},
     dataUrl : {"", "/shipping/a.pdf"}, url : {"", "/b.pdf"}]

\* a || b on strings
OrElse(a, b) == IF a # "" THEN a ELSE b

DefaultMessage(fn) ==
    IF fn = "generateAndOpenShippingSlip"
    THEN "Failed to generate PDF" ELSE "Failed to generate invoice"

Document(fn) ==
    IF fn = "generateAndOpenShippingSlip" THEN "shipping slip" ELSE "invoice"

\* constructPDFURL of networkUtils puts a network-accessible base before
\* the path
constructPDFURL(pdfPath) == <<"base", pdfPath>>

\* Mutant: no catch block, the error leaves the function.
PdfRethrow(call, step, message) ==
    [NoResult EXCEPT !.fn = call.fn, !.settled = "thrown",
                     !.error = message, !.done = call.done,
                     !.failure = <<step, message>>]

\* catch (error) { return { success: false, error: error.message, ... } }
PdfCatch(call, step, message) ==
    [NoResult EXCEPT !.fn = call.fn, !.settled = "returned",
                     !.success = FALSE, !.error = message,
                     !.message = <<"Failed to generate", Document(call.fn),
                                   message>>,
                     !.done = call.done, !.failure = <<step, message>>]

\* return { success: true, url: pdfUrl, accessible: isAccessible, ... }
PdfSuccess(call) ==
    [NoResult EXCEPT !.fn = call.fn, !.settled = "returned",
                     !.success = TRUE, !.url = call.url,
                     !.accessible = call.accessible,
                     !.message = <<Document(call.fn),
                                   "generated and opened successfully">>,
                     !.done = call.done \cup {"opened"}]

\* generateAndOpenShippingSlip(orderId, templateId) or
\* generateAndOpenInvoice(orderId) is called, up to the await of the api
PdfCall(fn, orderId, templateId) ==
    /\ pdfCall.pc = "idle"
    /\ fn = "generateAndOpenInvoice" => templateId = "null"
    /\ pdfCall' = [NoCall EXCEPT !.fn = fn, !.pc = "api",
                                 !.orderId = orderId,
                                 !.templateId = templateId]
    /\ UNCHANGED <<pdfResult, registerVars>>
    /\ UNCHANGED <<vars, orderVars, productVars>>

\* An error is thrown inside the try block at the given step.
PdfFails(step, message) ==
    /\ pdfResult' = PdfCatch(pdfCall, step, message)
    /\ pdfCall' = NoCall
    /\ UNCHANGED registerVars
    /\ UNCHANGED <<vars, orderVars, productVars>>

\* The api call throws.
ApiThrows(message) ==
    /\ pdfCall.pc = "api"
    /\ PdfFails("api", message)

\* The api call returns a response.
ApiReturns(response) ==
    /\ pdfCall.pc = "api"
    /\ LET pdfPath == OrElse(response.dataUrl, response.url)
       IN IF ~response.success
          THEN PdfFails("response", OrElse(response.message,
                                            DefaultMessage(pdfCall.fn)))
          ELSE IF pdfPath = ""
          THEN PdfFails("path", "No PDF URL in response")
          ELSE /\ pdfCall' = [pdfCall EXCEPT
                                 !.pc = "testPDFAccessibility",
                                 !.url = constructPDFURL(pdfPath),
                                 !.done = {"generated", "path"}]
               /\ UNCHANGED <<pdfResult, registerVars>>
               /\ UNCHANGED <<vars, orderVars, productVars>>

\* await testPDFAccessibility(pdfUrl) returns
AccessibilityReturns(isAccessible) ==
    /\ pdfCall.pc = "testPDFAccessibility"
    /\ pdfCall' = [pdfCall EXCEPT
                      !.pc = "openPDFWithFallbacks",
                      !.accessible = IF isAccessible THEN "true" ELSE "false",
                      !.done = @ \cup {IF isAccessible THEN "accessible"
                                       ELSE "inaccessible"}]
    /\ UNCHANGED <<pdfResult, registerVars>>
    /\ UNCHANGED <<vars, orderVars, productVars>>

\* await testPDFAccessibility(pdfUrl) throws
AccessibilityThrows(message) ==
    /\ pdfCall.pc = "testPDFAccessibility"
    /\ PdfFails("test", message)

\* await openPDFWithFallbacks(pdfUrl, filename) returns
OpenReturns ==
    /\ pdfCall.pc = "openPDFWithFallbacks"
    /\ pdfResult' = PdfSuccess(pdfCall)
    /\ pdfCall' = NoCall
    /\ UNCHANGED registerVars
    /\ UNCHANGED <<vars, orderVars, productVars>>

\* await openPDFWithFallbacks(pdfUrl, filename) throws
OpenThrows(message) ==
    /\ pdfCall.pc = "openPDFWithFallbacks"
    /\ PdfFails("open", message)

PdfNext ==
    \/ \E fn \in PdfFunctions, orderId \in OrderIds,
          templateId \in TemplateIds : PdfCall(fn, orderId, templateId)
    \/ \E message \in ErrorMessages : ApiThrows(message)
    \/ \E response \in ApiResponses : ApiReturns(response)
    \/ \E isAccessible \in BOOLEAN : AccessibilityReturns(isAccessible)
    \/ \E message \in ErrorMessages : AccessibilityThrows(message)
    \/ OpenReturns
    \/ \E message \in ErrorMessages : OpenThrows(message)

PdfSpecInit ==
    /\ ToastIdle
    /\ OrderInit
    /\ PageInit
    /\ ProductInit

PdfSpec == PdfSpecInit /\ [][PdfNext]_<<vars, others>>

-----------------------------------------------------------------------------
\* Register: the redirect to /login after a successful registration

\* The step of the passage of time, in ms
RegisterStep == 200

\* What await register(formData) gives
RegisterOutcomes == {"success", "failure", "throws"}

\* handleSubmit up to await register(formData); the form is hidden once
\* registrationSuccess is set and its button is disabled while loading
handleSubmit(valid) ==
    /\ registerMounted /\ ~registrationSuccess /\ ~registerLoading
    /\ IF valid
       THEN registerLoading' = TRUE /\ registering' = TRUE
       ELSE UNCHANGED <<registerLoading, registering>>
    /\ UNCHANGED <<registerMounted, registrationSuccess, redirectCountdown,
                   countdown, registerTimer, navigations, sinceSuccess,
                   lateTicks>>
    /\ UNCHANGED <<vars, orderVars, productVars, pdfVars>>

\* handleSubmit after await register(formData)
RegisterReturns(outcome) ==
    /\ registering
    /\ registering' = FALSE
    /\ registerLoading' = FALSE
    /\ IF outcome = "success"
       THEN /\ registrationSuccess' = TRUE
            /\ countdown' = CountdownFrom
            /\ redirectCountdown' = CountdownFrom
            /\ registerTimer' = [active |-> TRUE, rem |-> IntervalDelay]
            /\ sinceSuccess' = 0
       ELSE /\ registrationSuccess' = FALSE
            /\ UNCHANGED <<countdown, redirectCountdown, registerTimer,
                           sinceSuccess>>
    /\ UNCHANGED <<registerMounted, navigations, lateTicks>>
    /\ UNCHANGED <<vars, orderVars, productVars, pdfVars>>

\* Time passes, up to the moment the interval is due.
RegisterTick ==
    /\ registerTimer.active
    /\ registerTimer.rem > 0
    /\ LET dt == Min(RegisterStep, registerTimer.rem)
       IN /\ registerTimer' = [registerTimer EXCEPT !.rem = @ - dt]
          /\ sinceSuccess' = sinceSuccess + dt
    /\ UNCHANGED <<registerMounted, registerLoading, registrationSuccess,
                   redirectCountdown, countdown, registering, navigations,
                   lateTicks>>
    /\ UNCHANGED <<vars, orderVars, productVars, pdfVars>>

\* The callback of setInterval runs; a state update of a component that
\* is no longer mounted is dropped.
IntervalFires ==
    /\ registerTimer.active
    /\ registerTimer.rem = 0
    /\ countdown' = countdown - 1
    /\ redirectCountdown' =
          IF registerMounted THEN countdown' ELSE redirectCountdown
    /\ lateTicks' = IF registerMounted THEN lateTicks ELSE lateTicks + 1
    /\ IF countdown' <= 0
       THEN /\ registerTimer' = NoInterval
            /\ navigations' = Append(navigations, "interval")
            /\ registerMounted' = FALSE
       ELSE /\ registerTimer' = [active |-> TRUE, rem |-> IntervalDelay]
            /\ UNCHANGED <<navigations, registerMounted>>
    /\ UNCHANGED <<registerLoading, registrationSuccess, registering,
                   sinceSuccess>>
    /\ UNCHANGED <<vars, orderVars, productVars, pdfVars>>

\* onClick of the 'go to login now' button of the success alert
GoToLoginNow ==
    /\ registerMounted /\ registrationSuccess
    /\ navigations' = Append(navigations, "button")
    /\ registerMounted' = FALSE
    /\ UNCHANGED <<registerLoading, registrationSuccess, redirectCountdown,
                   countdown, registerTimer, registering, sinceSuccess,
                   lateTicks>>
    /\ UNCHANGED <<vars, orderVars, productVars, pdfVars>>

RegisterNext ==
    \/ \E valid \in BOOLEAN : handleSubmit(valid)
    \/ \E outcome \in RegisterOutcomes : RegisterReturns(outcome)
    \/ RegisterTick
    \/ IntervalFires
    \/ GoToLoginNow

RegisterSpecInit ==
    /\ ToastIdle
    /\ OrderInit
    /\ PageInit
    /\ ProductInit

RegisterSpec == RegisterSpecInit /\ [][RegisterNext]_<<vars, others>>

----------------------------------------------------------------------------
\* Properties

PendingExit == \E i \in 1..Len(timers) : timers[i].kind = "exit"

PendingExpiry == \E i \in 1..Len(timers) : timers[i].kind = "expiry"

PendingProgress ==
    \E i \in 1..Len(frames) :
        frames[i].kind \in {"effectProgress", "resumeProgress"}

\* C1: onClose(id) is invoked at most once, whatever close triggers race (the
\* auto-hide timeout, the timeouts restarted by resume, close clicks, Escape,
\* unmount), and exactly once after a timeout expiry, click or Escape occurred
\* and the exit timeouts have run.
C1_DismissedOnce ==
    /\ closeCalls <= 1
    /\ ((manual \/ expiries > 0) /\ ~PendingExit) => closeCalls = 1

\* C2: after unmount nothing the instance scheduled is pending or runs: no
\* timeout, no animation frame, no onClose call, no state update.
C2_NothingAfterUnmount ==
    /\ ~mounted => (timers = <<>> /\ frames = <<>>)
    /\ ~lateRuns

\* C3: with a progress bar and a duration > 0, progress stays in 0..100, never
\* increases, and is 0 once the duration has elapsed with the pointer away.
C3_ProgressMonotone ==
    [][(safeDuration > 0 /\ showProgress) =>
          /\ progress' \in 0..100
          /\ progress' <= progress
          /\ (active' >= safeDuration /\ NoDueFrame(frames')) => progress' = 0
      ]_vars

\* C4: after a resume, the auto-hide timeout that timerRef holds is due when
\* the duration has elapsed with the pointer away (duration - t after a pause
\* at t), for every showProgress.
C4_ResumeKeepsRemaining ==
    (mounted /\ everPaused /\ ~hovered /\ ~isLeaving /\ safeDuration > 0) =>
        \A i \in 1..Len(timers) :
            (timers[i].kind = "expiry" /\ timers[i].ref) =>
                timers[i].rem = safeDuration - active

\* C5: a toast with duration > 0 that is never paused and never closed by
\* hand starts one auto-hide timeout; it fires once, at duration after mount.
C5_OneExpiry ==
    (safeDuration > 0 /\ ~everPaused /\ ~manual) =>
        /\ armed <= 1
        /\ expiries <= 1
        /\ (expiries = 1 /\ closeCalls = 0) => age - leaveAge = safeDuration

C7_PauseFreezes ==
    [][(mounted /\ hovered /\ hovered') =>
          (progress' = progress /\ expiries' = expiries)]_vars

\* C8: with duration 0 no auto-hide timeout and no progress update is ever
\* started (mount, re-run of the effect, resume), and the toast leaves only
\* by a close click or Escape.
C8_ZeroDurationPersists ==
    safeDuration = 0 =>
        /\ ~PendingExpiry
        /\ ~PendingProgress
        /\ armed = 0 /\ expiries = 0
        /\ progress = InitialProgress
        /\ isLeaving => manual

\* A persistent toast was paused, resumed, and then closed by hand (so its
\* effect ran again).
C8_Witness ==
    safeDuration = 0 /\ everPaused /\ mounted /\ ~hovered /\ isLeaving

\* C9: onClose runs ExitDelay after setIsLeaving(true), not earlier; for a
\* toast never paused and never closed by hand, once, at duration + ExitDelay
\* after mount.
C9_DismissedAfterExit ==
    closeCalls >= 1 =>
        /\ closedLeaveAge = ExitDelay
        /\ (~everPaused /\ ~manual) =>
              (closeCalls = 1 /\ closedAge = safeDuration + ExitDelay)

\* The default duration: onClose at 5000 + 300.
C9_Witness ==
    /\ closeCalls = 1 /\ ~everPaused /\ ~manual
    /\ safeDuration = DefaultDuration
    /\ closedAge = DefaultDuration + ExitDelay

\* C10: a mounted toast with duration > 0 that is not paused and for which no
\* close was requested has an auto-hide timeout pending, so that it
\* eventually leaves and is dismissed; and once a close was requested, either
\* onClose has run or its timeout is pending.
C10_ExpiryPending ==
    /\ (mounted /\ safeDuration > 0 /\ ~hovered /\ leaveAge < 0)
          => PendingExpiry
    /\ (manual /\ closeCalls = 0) => PendingExit

\* A close was requested: setIsLeaving(true) has been called.
Leaving == leaveAge >= 0

NumExit(ts) == Cardinality({i \in 1..Len(ts) : ts[i].kind = "exit"})

\* handleClose is called: by the close button, the Escape key or a due
\* auto-hide timeout.
CloseRequest ==
    \/ Click
    \/ handleKeyDown("Escape")
    \/ \E i \in 1..Len(timers) : Expire(i)

\* C11: a close request made while the instance is already leaving is a
\* no-op: the leaving flag, isVisible and progress keep their values, no
\* further exit timeout is set, and onClose is not called a second time.
C11_CloseWhileLeavingNoOp ==
    [][(Leaving /\ CloseRequest) =>
          /\ (isLeaving' \/ queued') = (isLeaving \/ queued)
          /\ isVisible' = isVisible
          /\ progress' = progress
          /\ NumExit(timers') <= NumExit(timers)
      ]_vars

\* C12: an onClose that throws is caught inside the toast, and the toast is
\* still removed: it is unmounted, or a further onClose call is pending.
C12_ThrowStillRemoved ==
    /\ ~crashed
    /\ (thrown /\ mounted) => PendingExit

\* C13: a resume (pointer-leave) when progress has reached 0 starts neither
\* an auto-hide timeout nor a progress update and changes no state of the
\* toast.
C13_ResumeAtZeroNoRestart ==
    [][(mounted /\ hovered /\ mounted' /\ ~hovered' /\ progress = 0) =>
          /\ timers' = timers
          /\ frames' = frames
          /\ UNCHANGED <<isVisible, isLeaving, queued, progress, armed,
                         expiries, closeCalls>>
      ]_vars

\* A toast with a duration was resumed at progress 0: no close was requested
\* and nothing is pending.
C13_Witness ==
    /\ mounted /\ everPaused /\ ~hovered /\ safeDuration > 0
    /\ progress = 0 /\ ~Leaving /\ ~PendingExpiry /\ ~PendingProgress

\* C14: the effective duration is the given duration when that is a number
\* >= 0 (0 is kept), and 5000 for every other input: a negative number, NaN,
\* a string, null, a missing prop.
C14_EffectiveDuration ==
    safeDuration =
        IF duration.k = "number" /\ ~duration.nan /\ duration.v >= 0
        THEN duration.v ELSE 5000

\* null, which converts to the number 0, gives the default.
C14_Witness == duration = JsNull /\ safeDuration = DefaultDuration /\ isVisible

\* C15: for every variant outside {success, error, warning, info}, a missing
\* one included, the toast renders the info icon, the info colours and a
\* polite aria-live, exactly as for variant = info, and every lookup of the
\* render is defined.
C15_VariantFallback ==
    ~(variant.k = "string"
      /\ variant.s \in {"success", "error", "warning", "info"}) =>
        /\ VariantRendering(variant) = VariantRendering(JsString("info"))
        /\ VariantRendering(variant) =
              [icon |-> "Info",
               styles |-> [container |-> "toast-info",
                           icon |-> "text-blue-600",
                           iconBg |-> "bg-blue-100"],
               ariaLive |-> "polite", bar |-> "bg-blue-500"]
        /\ safeVariant \in DOMAIN toastIcons
        /\ safeVariant \in DOMAIN toastVariants

\* An unknown variant is rendered, in the leaving phase too.
C15_Witness ==
    /\ variant = JsString("bogus") /\ isLeaving
    /\ VariantRendering(variant).icon = "Info"

\* The direction the claim gives for a position string
C16_Side ==
    LET w == PositionWords[safePosition]
    IN IF "right" \in w THEN "right"
       ELSE IF "left" \in w THEN "left"
       ELSE IF "top" \in w THEN "top"
       ELSE IF "bottom" \in w THEN "bottom"
       ELSE "right"

\* C16: the animation class depends on the phase and the position only: in
\* the visible phase slide-in-from-right for a position containing right,
\* -left for one containing left, otherwise -top or -bottom, and -right as
\* fallback; in the leaving phase the slide-out-to class of the same
\* direction; leaving takes precedence over visible.
C16_AnimationClass ==
    /\ isLeaving => getAnimationClass = <<"animate-slide-out-to", C16_Side>>
    /\ (isVisible /\ ~isLeaving) =>
           getAnimationClass = <<"animate-slide-in-from", C16_Side>>

\* A visible toast at the bottom centre is leaving.
C16_Witness ==
    /\ isVisible /\ isLeaving /\ position = JsString("bottom-center")
    /\ getAnimationClass = <<"animate-slide-out-to", "bottom">>

NumExpiry(ts) == Cardinality({i \in 1..Len(ts) : ts[i].kind = "expiry"})

NumProgress(fs) ==
    Cardinality({i \in 1..Len(fs) :
                    fs[i].kind \in {"effectProgress", "resumeProgress"}})

\* C17: at every moment at most one auto-hide timeout and at most one
\* progress frame are pending, and timerRef and progressRef hold them, so
\* that pause and the unmount cleanup cancel every pending one.
C17_RefsHoldAllPending ==
    /\ NumExpiry(timers) <= 1
    /\ NumProgress(frames) <= 1
    /\ \A i \in 1..Len(timers) : timers[i].kind = "expiry" => timers[i].ref
    /\ \A i \in 1..Len(frames) :
          frames[i].kind \in {"effectProgress", "resumeProgress"}
              => frames[i].ref

\* C18: for each print guard at most one guarded operation is in flight, and
\* an invocation made while another operation under the same guard is in
\* flight calls no service and raises no alert.
C18_OneInFlight ==
    /\ \A g \in Guards : InFlight(g) <= 1
    /\ \A i \in 1..Len(ops) : ~ops[i].overlapped
    /\ lastReturn.overlapped =>
          (lastReturn.services = {} /\ lastReturn.alerts = <<>>)

\* C19: a bulk operation splits the selected ids into consecutive batches of
\* at most 10 that contain every id once, in the original order, and issues
\* the requests of a batch only after every request of the batch before has
\* completed: at most 10 of its requests are in flight.
C19_BatchesInTurn ==
    bulk.phase # "idle" =>
        /\ \A b \in 1..Len(bulk.batches) : Len(bulk.batches[b]) \in 1..10
        /\ Flatten(bulk.batches) = issuedIds
              \o Flatten(SubSeq(bulk.batches, bulk.k + 1, Len(bulk.batches)))
        /\ bulk.phase = "succeeded" =>
              (Len(issuedIds) = Cardinality(Range(issuedIds))
               /\ \A i \in 1..Len(issuedIds) : issuedIds[i] = i)
        /\ Cardinality(pendingReq) <= 10
        /\ pendingReq \subseteq Range(bulk.batches[bulk.k])

\* A bulk operation on 21 ids has gone through its three batches.
C19_Witness ==
    bulk.phase = "succeeded" /\ Len(issuedIds) = 21 /\ bulk.k = 3

\* C23: if a request of a batch of a bulk operation fails, no request of a
\* later batch is issued, the selection is kept, exactly one error alert and
\* no success alert is raised, no refresh is started, and loading is false
\* when the operation has ended.
C23_FailedBatchStops ==
    bulk.failed # 0 =>
        /\ bulk.phase = "failed"
        /\ bulk.failed \in Range(bulk.batches[bulk.k])
        /\ issuedIds = Flatten(SubSeq(bulk.batches, 1, bulk.k))
        /\ selectedProducts = Flatten(bulk.batches)
        /\ Cardinality({i \in DOMAIN bulkAlerts : bulkAlerts[i] = "error"}) = 1
        /\ \A i \in DOMAIN bulkAlerts : bulkAlerts[i] # "success"
        /\ refreshes = 0
        /\ ~loading

\* A request of the second of three batches failed, and the other requests
\* of that batch have completed since.
C23_Witness ==
    /\ bulk.phase = "failed" /\ bulk.k = 2 /\ Len(bulk.batches) = 3
    /\ bulk.failed \in Range(bulk.batches[2])
    /\ pendingReq = {}
    /\ bulkAlerts = <<"info", "error">>

\* C24: handlePrintShippingSlip never calls generateAndOpenShippingSlip
\* without a template id: when getDefaultTemplate throws, reports failure or
\* yields no template, one warning alert is raised and nothing else happens;
\* a default template id is used when there is one, and the first available
\* template otherwise.
C24_TemplateOrWarning ==
    \A op \in Range(ops) \cup {lastReturn} :
        LET generated == "generateAndOpenShippingSlip" \in op.services
        IN /\ generated => op.template # "none"
           /\ op.got \in {"throws", "failure", "empty"} =>
                 /\ op.pc = "returned"
                 /\ op.alerts = <<"warning">>
                 /\ ~generated
           /\ op.got = "default" => (generated /\ op.template = "default")
           /\ op.got = "available" => (generated /\ op.template = "first")

\* A shipping slip was printed with the first available template.
C24_Witness ==
    /\ lastReturn.got = "available" /\ lastReturn.template = "first"
    /\ lastReturn.alerts = <<"success">>

\* C25: generateAndOpenShippingSlip and generateAndOpenInvoice never throw:
\* an error thrown by the api call, a response with success = false, a
\* missing path or an error thrown while opening gives a result with
\* success = false and the error's message; success = true is returned only
\* when the document was generated, has a path and was opened; and the
\* result of the accessibility test is passed on in accessible, whether it
\* is true or false.
C25_NeverThrows ==
    /\ pdfResult.fn # "none" =>
          /\ pdfResult.settled = "returned"
          /\ pdfResult.failure # <<>> =>
                /\ ~pdfResult.success
                /\ pdfResult.error = pdfResult.failure[2]
                /\ pdfResult.message[3] = pdfResult.failure[2]
          /\ pdfResult.success <=>
                {"generated", "path", "opened"} \subseteq pdfResult.done
          /\ pdfResult.success =>
                /\ pdfResult.failure = <<>>
                /\ pdfResult.accessible =
                      IF "inaccessible" \in pdfResult.done
                      THEN "false" ELSE "true"
    /\ pdfCall.pc = "openPDFWithFallbacks" =>
          pdfCall.accessible \in {"true", "false"}

\* An invoice was opened although its URL was not accessible.
C25_Witness ==
    /\ pdfResult.fn = "generateAndOpenInvoice"
    /\ pdfResult.success /\ pdfResult.accessible = "false"
    /\ pdfResult.done = {"generated", "path", "inaccessible", "opened"}

\* C26: after a successful registration navigate("/login") is called
\* once: the countdown goes from 5 to 0 by 1 each second, navigate is called
\* at 0 and the interval is cleared; and after the 'go to login now' button
\* was used there is no second navigate call and no interval tick.
C26_NavigateOnce ==
    /\ Len(navigations) <= 1
    /\ lateTicks = 0
    /\ navigations # <<>> => ~registerTimer.active
    /\ registerTimer.active =>
          countdown = CountdownFrom
                        - (sinceSuccess + registerTimer.rem) \div IntervalDelay
                        + 1
    /\ countdown \in 0..CountdownFrom

\* C20: a burst of search changes causes one product fetch: every fetch
\* after mount is issued by the timeout, 300 ms after the last change, and
\* carries the search value the input shows; and one has been issued when
\* the timeout has run.
C20_DebouncedFetch ==
    /\ \A i \in 3..Len(fetches) :
          /\ fetches[i].via = "timeout"
          /\ fetches[i].at = 300
          /\ fetches[i].search = fetches[i].shown
    /\ (sinceChange >= 0 /\ ~searchTimeout.pending) =>
          (Len(fetches) > 2 /\ fetches[Len(fetches)].search = searchValue)

\* C21: once every product fetch has been answered, state shows the response
\* to the fetch issued last: a late response to an older query does not
\* replace the result of a newer one.
C21_LatestResponseShown ==
    (awaited = {} /\ Len(fetches) > 0) =>
        /\ displayed \in 1..Len(fetches)
        /\ fetches[displayed].search = fetches[Len(fetches)].search

\* C22: whenever an invocation of a print handler that set its flag
\* finishes (success, a result without success, a thrown error, an invalid
\* document type, the no-template return), its flag is false again, and the
\* flag is never true with no operation in flight.
C22_FlagReset ==
    [][/\ (lastReturn' # lastReturn /\ lastReturn'.setFlag) =>
             ~FlagAfter(pendingFlags, GuardOf(lastReturn.h))'
       /\ \A g \in Guards :
             (InFlight(g) = 0)' => ~FlagAfter(pendingFlags, g)'
      ]_<<vars, others>>

\* A shipping slip invocation returned for want of a template, and the
\* reset of its flag has been rendered.
C22_Witness ==
    /\ lastReturn.h = "handlePrintShippingSlip" /\ lastReturn.setFlag
    /\ lastReturn.alerts = <<"warning">>
    /\ ops = <<>> /\ pendingFlags = NoFlags /\ ~isPrintingShippingSlip

====
